---- MODULE Spec2Model ----
(***************************************************************************)
(* Model of the frame conversion engine                                    *)
(*   include/boost/astronomy/coordinate/conversion/conversion_graph.hpp    *)
(* convert(src, dest, phi, st, obliquity, source_coordinate) builds the    *)
(* catalog graph, resolves both names, runs a breadth first search from    *)
(* the source, walks the predecessor array back from the destination and   *)
(* folds the column vector through the matrices of the path.               *)
(*                                                                         *)
(* Vertex descriptors of adjacency_list<vecS, vecS, directedS> are the     *)
(* indices 0 .. num_vertices-1; an out-edge list keeps add_edge order.     *)
(* Matrices are 2x2 over the integers, <<row1, row2>>; a column vector is  *)
(* <<x, y>>.  Angles are counted in quarter turns so that sine and cosine  *)
(* are exact.                                                              *)
(***************************************************************************)
EXTENDS Integers, Sequences, FiniteSets, TLC

(* ---- bounds ---- *)
\* angle parameters phi, st, obliquity range over 0 .. MaxAngle quarter turns
MaxAngle == 1
\* components of the caller's column vector range over 0 .. MaxCoord
MaxCoord == 1
\* the backward walk is cut off after MaxWalk iterations (the loop of line 134
\* has no bound of its own)
MaxWalk == 6

(* ---- program constants ---- *)
graph_size == 5

Angles == 0 .. MaxAngle
Coords == 0 .. MaxCoord
Vectors == {<<x, y>> : x \in Coords, y \in Coords}

\* names a caller may pass: the five registered ones, an unregistered one,
\* and one that differs from a registered name only by case
NameInputs ==
  {"Horizon", "Equatorial_HA_Dec", "Equatorial_RA_Dec", "Ecliptic", "Galactic",
   "Lunar", "horizon"}

\* the registered names among them
RegisteredInputs ==
  {"Horizon", "Equatorial_HA_Dec", "Equatorial_RA_Dec", "Ecliptic", "Galactic"}

(* ---- matrices (ublas) ---- *)
Sin4(k) == CASE k % 4 = 0 -> 0 [] k % 4 = 1 -> 1 [] k % 4 = 2 -> 0 [] OTHER -> 0 - 1
Cos4(k) == CASE k % 4 = 0 -> 1 [] k % 4 = 1 -> 0 [] k % 4 = 2 -> 0 - 1 [] OTHER -> 0

\* prod(M, v): matrix times column vector
prod(M, v) ==
  << M[1][1] * v[1] + M[1][2] * v[2],
     M[2][1] * v[1] + M[2][2] * v[2] >>

\* matrix times matrix, used only to state properties of the registered matrices
MatMul(A, B) ==
  << << A[1][1] * B[1][1] + A[1][2] * B[2][1], A[1][1] * B[1][2] + A[1][2] * B[2][2] >>,
     << A[2][1] * B[1][1] + A[2][2] * B[2][1], A[2][1] * B[1][2] + A[2][2] * B[2][2] >> >>

Identity == << <<1, 0>>, <<0, 1>> >>

(* ---- the transform builders of utility.hpp (opaque to the engine) ---- *)
ha_dec_horizon(phi) ==
  << << 0 - Sin4(phi), Cos4(phi) >>, << Cos4(phi), Sin4(phi) >> >>
ha_dec_ra_dec(st) ==
  << << Cos4(st), Sin4(st) >>, << Sin4(st), 0 - Cos4(st) >> >>
ra_dec_to_ecliptic(obliquity) ==
  << << Cos4(obliquity), Sin4(obliquity) >>, << 0 - Sin4(obliquity), Cos4(obliquity) >> >>
ecliptic_to_ra_dec(obliquity) ==
  << << Cos4(obliquity), 0 - Sin4(obliquity) >>, << Sin4(obliquity), Cos4(obliquity) >> >>
\* parameter-free; the two fixed matrices are not exact inverses of each other
ra_dec_to_galactic == << <<1, 1>>, <<0, 1>> >>
galactic_to_ra_dec == << <<1, 0>>, <<0 - 1, 1>> >>

(* ---- graph construction (boost::adjacency_list) ---- *)
\* a graph is [names: sequence of coordinate_name, edges: sequence of edges];
\* vertex descriptor v is the index of names[v + 1]
EmptyGraph == [names |-> <<>>, edges |-> <<>>]

add_vertex(name, g) == [g EXCEPT !.names = Append(@, name)]

\* variant: an undirected graph, every edge present in both directions
add_edge_undirected(u, v, label, m, g) ==
  [g EXCEPT !.edges =
     Append(Append(@, [source |-> u, target |-> v, edge_label |-> label, conv_matrix |-> m]),
            [source |-> v, target |-> u, edge_label |-> label, conv_matrix |-> m])]

add_edge(u, v, label, m, g) ==
  [g EXCEPT !.edges =
     Append(@, [source |-> u, target |-> v, edge_label |-> label, conv_matrix |-> m])]

num_vertices(g) == Len(g.names)

\* variant: the edge of line 89, Galactic to Equatorial RA Dec, is not added
BuildGraphOneWay(phi, st, obliquity) ==
  LET g0 == add_vertex("Horizon", EmptyGraph)
      g1 == add_vertex("Equatorial_HA_Dec", g0)
      g2 == add_vertex("Equatorial_RA_Dec", g1)
      g3 == add_vertex("Ecliptic", g2)
      g4 == add_vertex("Galactic", g3)
      e1 == add_edge(1, 0, "Equatorial HA Dec to Horizon", ha_dec_horizon(phi), g4)
      e2 == add_edge(0, 1, "Horizon to Equatorial HA Dec", ha_dec_horizon(phi), e1)
      e3 == add_edge(1, 2, "Equatorial HA Dec to Equatorial RA Dec", ha_dec_ra_dec(st), e2)
      e4 == add_edge(2, 1, "Equatorial RA Dec to Equatorial HA Dec", ha_dec_ra_dec(st), e3)
      e5 == add_edge(2, 3, "Equatorial RA Dec to Ecliptic", ra_dec_to_ecliptic(obliquity), e4)
      e6 == add_edge(3, 2, "Ecliptic to Equatorial RA Dec", ecliptic_to_ra_dec(obliquity), e5)
      e7 == add_edge(2, 4, "Equatorial RA Dec to Galactic", ra_dec_to_galactic, e6)
  IN e7

\* variant: a catalog that also links Horizon and Ecliptic directly
BuildGraphCycle(phi, st, obliquity) ==
  LET g7 == BuildGraphOneWay(phi, st, obliquity)
      e8 == add_edge(4, 2, "Galactic to Equatorial RA Dec", galactic_to_ra_dec, g7)
      e9 == add_edge(0, 3, "Horizon to Ecliptic", ra_dec_to_ecliptic(obliquity), e8)
      e10 == add_edge(3, 0, "Ecliptic to Horizon", ecliptic_to_ra_dec(obliquity), e9)
  IN e10

\* lines 72-89: the catalog
BuildGraph(phi, st, obliquity) ==
  LET g0 == add_vertex("Horizon", EmptyGraph)
      g1 == add_vertex("Equatorial_HA_Dec", g0)
      g2 == add_vertex("Equatorial_RA_Dec", g1)
      g3 == add_vertex("Ecliptic", g2)
      g4 == add_vertex("Galactic", g3)
      vd0 == 0
      vd1 == 1
      vd2 == 2
      vd3 == 3
      vd4 == 4
      e1 == add_edge(vd1, vd0, "Equatorial HA Dec to Horizon", ha_dec_horizon(phi), g4)
      e2 == add_edge(vd0, vd1, "Horizon to Equatorial HA Dec", ha_dec_horizon(phi), e1)
      e3 == add_edge(vd1, vd2, "Equatorial HA Dec to Equatorial RA Dec", ha_dec_ra_dec(st), e2)
      e4 == add_edge(vd2, vd1, "Equatorial RA Dec to Equatorial HA Dec", ha_dec_ra_dec(st), e3)
      e5 == add_edge(vd2, vd3, "Equatorial RA Dec to Ecliptic", ra_dec_to_ecliptic(obliquity), e4)
      e6 == add_edge(vd3, vd2, "Ecliptic to Equatorial RA Dec", ecliptic_to_ra_dec(obliquity), e5)
      e7 == add_edge(vd2, vd4, "Equatorial RA Dec to Galactic", ra_dec_to_galactic, e6)
      e8 == add_edge(vd4, vd2, "Galactic to Equatorial RA Dec", galactic_to_ra_dec, e7)
  IN e8

Vertices(g) == 0 .. (num_vertices(g) - 1)

\* out_edges(u, g): targets of u's out-edges in insertion order
RECURSIVE OutTargets(_, _, _)
OutTargets(u, edges, i) ==
  IF i > Len(edges) THEN <<>>
  ELSE IF edges[i].source = u
       THEN <<edges[i].target>> \o OutTargets(u, edges, i + 1)
       ELSE OutTargets(u, edges, i + 1)

out_edges(u, g) == OutTargets(u, g.edges, 1)

\* variant: looks the edge up in the reverse direction
edge_reversed(a, b, g) ==
  LET hits == {i \in 1 .. Len(g.edges) : g.edges[i].source = b /\ g.edges[i].target = a}
  IN IF hits = {} THEN <<0, FALSE>>
     ELSE <<CHOOSE i \in hits : \A j \in hits : i <= j, TRUE>>

\* variant: takes the first out-edge of a, whatever its target
edge_first_out(a, b, g) ==
  LET hits == {i \in 1 .. Len(g.edges) : g.edges[i].source = a}
  IN IF hits = {} THEN <<0, FALSE>>
     ELSE <<CHOOSE i \in hits : \A j \in hits : i <= j, TRUE>>

\* boost::edge(a, b, G): <<index of the first edge a -> b, TRUE>>, or <<0, FALSE>>
edge(a, b, g) ==
  LET hits == {i \in 1 .. Len(g.edges) : g.edges[i].source = a /\ g.edges[i].target = b}
  IN IF hits = {} THEN <<0, FALSE>>
     ELSE <<CHOOSE i \in hits : \A j \in hits : i <= j, TRUE>>

\* lines 99-106 and 111-118: first vertex whose coordinate_name equals name
Matching(name, g) == {v \in Vertices(g) : g.names[v + 1] = name}
FindVertex(name, g) == CHOOSE v \in Matching(name, g) : \A w \in Matching(name, g) : v <= w

(* ---- messages and small steps of convert ---- *)
\* variant: the message does not carry the name
NotFoundBare(name) == "Not found "

\* lines 107 and 119: std::range_error("Not found " + name)
NotFound(name) == "Not found " \o name

\* line 122: boost::array<int, graph_size> predecessors{0}
ZeroArray == [v \in 0 .. (graph_size - 1) |-> 0]

\* variant: source and target exchanged
record_predecessors_swapped(pred, u, v) == [pred EXCEPT ![u] = v]

\* boost::record_predecessors on_tree_edge: predecessors[target(e)] = source(e)
record_predecessors(pred, u, v) == [pred EXCEPT ![v] = u]

\* variant: ans starts as a zero vector
InitAnsZero(v) == <<0, 0>>

\* line 141: ans = col_vec.get()
InitAns(v) == v

\* variant: the loop stops one pair early
MoreEdgesShort(i) == i - 1 > 1

\* line 144: it + 1 != store_path.rend(), with it counted as an index into
\* store_path (rbegin is index Len(store_path), rend is index 0)
MoreEdges(i) == i - 1 # 0

(* ---- state ---- *)
VARIABLES
  pc,            \* position inside convert, or "idle" / "done" / "error" / "ub"
  src, dest,     \* arguments: frame names
  phi, st, obliquity,  \* arguments: angle parameters (quarter turns)
  col_vec,       \* line 70: the caller's column vector
  G,             \* line 72: the graph
  valid_src, valid_dest, src_vertex, dest_vertex,   \* lines 91-95
  predecessors,  \* line 122
  color, Q,      \* state of breadth_first_search: colour map and queue
  written,       \* history: predecessor entries assigned so far
  p, store_path, \* lines 131-139
  ans, it,       \* lines 141-149
  applied,       \* history: the edges <<a, b>> whose matrix line 148 applied
  err,           \* what() of the exception thrown, "" if none
  result,        \* the value returned
  trip,          \* 0: a fresh call; 1: the return call of a round trip;
                 \* 2: a repetition of the call with the same names
  first,         \* the first call of a round trip: its input and applied edges
  steps          \* history: the number of steps the current call has taken

vars ==
  << pc, src, dest, phi, st, obliquity, col_vec, G, valid_src, valid_dest,
     src_vertex, dest_vertex, predecessors, color, Q, written, p, store_path,
     ans, it, applied, err, result, trip, first, steps >>

\* variant: a do-while loop, whose body runs once before the test
WalkCondDoWhile(q, s) == q # s \/ store_path = <<>>

\* line 134: the loop condition of the backward walk
WalkCond(q, s) == q # s

NoFirst == [input |-> <<0, 0>>, applied |-> <<>>]

\* values of the locals before convert assigns them.  src_vertex and
\* dest_vertex are declared without initialiser (lines 94-95) and are never
\* read before lines 103 and 115 assign them.
Locals ==
  /\ valid_src = FALSE /\ valid_dest = FALSE
  /\ src_vertex = 0 /\ dest_vertex = 0
  /\ predecessors = ZeroArray
  /\ color = [v \in 0 .. (graph_size - 1) |-> "white"]
  /\ Q = <<>>
  /\ written = {}
  /\ p = 0 /\ store_path = <<>>
  /\ ans = <<0, 0>> /\ it = 0
  /\ applied = <<>>
  /\ err = ""
  /\ result = <<0, 0>>
  /\ steps = 0

Init ==
  /\ pc = "idle"
  /\ src = "" /\ dest = ""
  /\ phi = 0 /\ st = 0 /\ obliquity = 0
  /\ col_vec = <<0, 0>>
  /\ G = EmptyGraph
  /\ trip = 0 /\ first = NoFirst
  /\ Locals

\* lines 66-95: entry of convert: column vector, graph, flags
Enter(s, d, a1, a2, a3, vec) ==
  /\ pc' = "resolve_src"
  /\ src' = s /\ dest' = d
  /\ phi' = a1 /\ st' = a2 /\ obliquity' = a3
  /\ col_vec' = vec
  /\ G' = BuildGraph(a1, a2, a3)
  /\ valid_src' = FALSE /\ valid_dest' = FALSE
  /\ src_vertex' = 0 /\ dest_vertex' = 0
  /\ predecessors' = ZeroArray
  /\ color' = [v \in 0 .. (graph_size - 1) |-> "white"]
  /\ Q' = <<>>
  /\ written' = {}
  /\ p' = 0 /\ store_path' = <<>>
  /\ ans' = <<0, 0>> /\ it' = 0
  /\ applied' = <<>>
  /\ err' = ""
  /\ result' = <<0, 0>>
  /\ steps' = 0

\* a caller invokes convert with arbitrary arguments
Call ==
  /\ pc = "idle"
  /\ \E s \in NameInputs, d \in NameInputs, a1 \in Angles, a2 \in Angles,
        a3 \in Angles, v \in Vectors : Enter(s, d, a1, a2, a3, v)
  /\ trip' = 0 /\ first' = NoFirst

\* a caller feeds the result of convert(A, B, v) to convert(B, A, .) with the
\* same angle parameters
CallBack ==
  /\ pc = "done" /\ trip = 0
  /\ Enter(dest, src, phi, st, obliquity, result)
  /\ trip' = 1
  /\ first' = [input |-> col_vec, applied |-> applied]

\* a caller repeats convert with the same names and any other angle
\* parameters and column vector; the edges the earlier call applied are kept
CallAgain ==
  /\ pc = "done" /\ trip = 0
  /\ \E a1 \in Angles, a2 \in Angles, a3 \in Angles, v \in Vectors :
        Enter(src, dest, a1, a2, a3, v)
  /\ trip' = 2
  /\ first' = [input |-> NoFirst.input, applied |-> applied]

\* lines 97-107
ResolveSrc ==
  /\ pc = "resolve_src"
  /\ steps' = steps + 1
  /\ IF Matching(src, G) # {}
     THEN /\ valid_src' = TRUE
          /\ src_vertex' = FindVertex(src, G)
          /\ pc' = "resolve_dest"
          /\ err' = err
     ELSE /\ pc' = "error"
          /\ err' = NotFound(src)
          /\ UNCHANGED <<valid_src, src_vertex>>
  /\ UNCHANGED << src, dest, phi, st, obliquity, col_vec, G, valid_dest,
                  dest_vertex, predecessors, color, Q, written, p, store_path,
                  ans, it, applied, result, trip, first >>

\* lines 109-119
ResolveDest ==
  /\ pc = "resolve_dest"
  /\ steps' = steps + 1
  /\ IF Matching(dest, G) # {}
     THEN /\ valid_dest' = TRUE
          /\ dest_vertex' = FindVertex(dest, G)
          /\ pc' = "bfs_init"
          /\ err' = err
     ELSE /\ pc' = "error"
          /\ err' = NotFound(dest)
          /\ UNCHANGED <<valid_dest, dest_vertex>>
  /\ UNCHANGED << src, dest, phi, st, obliquity, col_vec, G, valid_src,
                  src_vertex, predecessors, color, Q, written, p, store_path,
                  ans, it, applied, result, trip, first >>

\* lines 121-123 and the start of breadth_first_search: every vertex white,
\* the source gray and queued
BfsInit ==
  /\ pc = "bfs_init"
  /\ steps' = steps + 1
  /\ predecessors' = [ZeroArray EXCEPT ![src_vertex] = src_vertex]
  /\ written' = {src_vertex}
  /\ color' = [v \in 0 .. (graph_size - 1) |->
                 IF v = src_vertex THEN "gray" ELSE "white"]
  /\ Q' = <<src_vertex>>
  /\ pc' = "bfs"
  /\ UNCHANGED << src, dest, phi, st, obliquity, col_vec, G, valid_src,
                  valid_dest, src_vertex, dest_vertex, p, store_path, ans, it,
                  applied, err, result, trip, first >>

\* examining the out-edges ts[i..] of u in order: a white target makes a tree
\* edge (predecessor recorded, target gray and queued); any other is skipped
RECURSIVE Examine(_, _, _, _)
Examine(u, ts, i, acc) ==
  IF i > Len(ts) THEN acc
  ELSE LET v == ts[i]
       IN IF acc.color[v] = "white"
          THEN Examine(u, ts, i + 1,
                 [pred |-> record_predecessors(acc.pred, u, v),
                  color |-> [acc.color EXCEPT ![v] = "gray"],
                  Q |-> Append(acc.Q, v),
                  written |-> acc.written \cup {v}])
          ELSE Examine(u, ts, i + 1, acc)

\* one iteration of the queue loop of breadth_first_visit
BfsVisit ==
  /\ pc = "bfs"
  /\ steps' = steps + 1
  /\ Q # <<>>
  /\ \E r \in {Examine(Head(Q), out_edges(Head(Q), G), 1,
                  [pred |-> predecessors, color |-> color, Q |-> Tail(Q),
                   written |-> written])} :
        /\ predecessors' = r.pred
        /\ color' = [r.color EXCEPT ![Head(Q)] = "black"]
        /\ Q' = r.Q
        /\ written' = r.written
  /\ UNCHANGED << pc, src, dest, phi, st, obliquity, col_vec, G, valid_src,
                  valid_dest, src_vertex, dest_vertex, p, store_path, ans, it,
                  applied, err, result, trip, first >>

\* the queue is empty: breadth_first_search returns; lines 131-133
BfsDone ==
  /\ pc = "bfs"
  /\ steps' = steps + 1
  /\ Q = <<>>
  /\ store_path' = <<>>
  /\ p' = dest_vertex
  /\ pc' = "walk"
  /\ UNCHANGED << src, dest, phi, st, obliquity, col_vec, G, valid_src,
                  valid_dest, src_vertex, dest_vertex, predecessors, color, Q,
                  written, ans, it, applied, err, result, trip, first >>

\* lines 134-138: one iteration of the backward walk
WalkStep ==
  /\ pc = "walk"
  /\ steps' = steps + 1
  /\ WalkCond(p, src_vertex)
  /\ Len(store_path) < MaxWalk
  /\ store_path' = Append(store_path, p)
  /\ p' = predecessors[p]
  /\ UNCHANGED << pc, src, dest, phi, st, obliquity, col_vec, G, valid_src,
                  valid_dest, src_vertex, dest_vertex, predecessors, color, Q,
                  written, ans, it, applied, err, result, trip, first >>

\* lines 139-144: the walk ends; ans starts as the column vector and the
\* reverse iterator starts at rbegin
WalkEnd ==
  /\ pc = "walk"
  /\ steps' = steps + 1
  /\ ~WalkCond(p, src_vertex)
  /\ store_path' = Append(store_path, p)
  /\ ans' = InitAns(col_vec)
  /\ it' = Len(store_path) + 1
  /\ pc' = "mult"
  /\ UNCHANGED << src, dest, phi, st, obliquity, col_vec, G, valid_src,
                  valid_dest, src_vertex, dest_vertex, predecessors, color, Q,
                  written, p, applied, err, result, trip, first >>

\* lines 144-149: one iteration of the composition loop.  boost::edge on a
\* pair without an edge returns a descriptor that must not be dereferenced:
\* the behaviour of line 148 is then undefined.
MultStep ==
  /\ pc = "mult"
  /\ steps' = steps + 1
  /\ MoreEdges(it)
  /\ LET a == store_path[it]
         b == store_path[it - 1]
         e == edge(a, b, G)
     IN IF e[2]
        THEN /\ ans' = prod(G.edges[e[1]].conv_matrix, ans)
             /\ applied' = Append(applied, <<a, b>>)
             /\ it' = it - 1
             /\ pc' = pc
        ELSE /\ pc' = "ub"
             /\ ans' \in Vectors
             /\ UNCHANGED <<applied, it>>
  /\ UNCHANGED << src, dest, phi, st, obliquity, col_vec, G, valid_src,
                  valid_dest, src_vertex, dest_vertex, predecessors, color, Q,
                  written, p, store_path, err, result, trip, first >>

\* line 151
Return ==
  /\ pc = "mult"
  /\ steps' = steps + 1
  /\ ~MoreEdges(it)
  /\ result' = ans
  /\ pc' = "done"
  /\ UNCHANGED << src, dest, phi, st, obliquity, col_vec, G, valid_src,
                  valid_dest, src_vertex, dest_vertex, predecessors, color, Q,
                  written, p, store_path, ans, it, applied, err, trip, first >>

\* the steps of one convert call, which runs to completion once entered
Step ==
  \/ ResolveSrc \/ ResolveDest \/ BfsInit \/ BfsVisit \/ BfsDone
  \/ WalkStep \/ WalkEnd \/ MultStep \/ Return

Next == Call \/ CallBack \/ CallAgain \/ Step

Spec == Init /\ [][Next]_vars

(* ---- the engine on a catalog with missing edges ---- *)
\* The catalog of lines 76-89 is strongly connected, so under Spec the search
\* assigns the predecessor entry of every vertex.  MissingSpec runs the same
\* steps of convert on catalogs that lack some of the edges, which is where
\* the walk of lines 133-139 meets entries the search never assigned.
\* at most MaxMissing of the add_edge calls of lines 82-89 are left out
MaxMissing == 2

\* g with the edges whose index is in drop removed, the order of the rest kept
RECURSIVE KeepEdges(_, _, _)
KeepEdges(edges, drop, i) ==
  IF i > Len(edges) THEN <<>>
  ELSE IF i \in drop THEN KeepEdges(edges, drop, i + 1)
       ELSE <<edges[i]>> \o KeepEdges(edges, drop, i + 1)

WithoutEdges(g, drop) == [g EXCEPT !.edges = KeepEdges(g.edges, drop, 1)]

\* convert entered (lines 66-95) with a catalog from which some edges are missing
InitMissing ==
  /\ pc = "resolve_src"
  /\ src \in RegisteredInputs /\ dest \in RegisteredInputs
  /\ phi = 0 /\ st = 0 /\ obliquity = 0
  /\ col_vec \in Vectors
  /\ \E drop \in SUBSET (1 .. Len(BuildGraph(0, 0, 0).edges)) :
       /\ Cardinality(drop) <= MaxMissing
       /\ G = WithoutEdges(BuildGraph(0, 0, 0), drop)
  /\ trip = 0 /\ first = NoFirst
  /\ Locals

MissingSpec == InitMissing /\ [][Step]_vars

(***************************************************************************)
(* Properties                                                              *)
(***************************************************************************)
\* the frame names of the reference catalog
RegisteredNames ==
  {"Horizon", "Equatorial_HA_Dec", "Equatorial_RA_Dec", "Ecliptic", "Galactic"}

\* the directed edges of g as a set of pairs
EdgePairs(g) == {<<g.edges[i].source, g.edges[i].target>> : i \in 1 .. Len(g.edges)}

\* the matrix registered in g on the directed edge a -> b
Registered(a, b, g) ==
  LET i == CHOOSE j \in 1 .. Len(g.edges) : g.edges[j].source = a /\ g.edges[j].target = b
  IN g.edges[i].conv_matrix

\* store_path read from its last element to its first: source to destination
Path == [i \in 1 .. Len(store_path) |-> store_path[Len(store_path) + 1 - i]]

\* nothing of the search, the walk or the composition has happened
NoSearch ==
  /\ written = {} /\ Q = <<>> /\ predecessors = ZeroArray
  /\ \A v \in DOMAIN color : color[v] = "white"
  /\ store_path = <<>> /\ applied = <<>> /\ ans = <<0, 0>> /\ result = <<0, 0>>

\* C1: a source name equal to no registered name fails with "Not found <source>";
\* a registered source with an unregistered destination fails with
\* "Not found <destination>"; in both cases nothing of the search, the walk or
\* the composition is performed.
C1_NotFound ==
  /\ (pc \notin {"idle", "resolve_src"} /\ src \notin RegisteredNames)
       => (pc = "error" /\ err = "Not found " \o src /\ NoSearch)
  /\ (pc \notin {"idle", "resolve_src", "resolve_dest"}
        /\ src \in RegisteredNames /\ dest \notin RegisteredNames)
       => (pc = "error" /\ err = "Not found " \o dest /\ NoSearch)
  /\ (pc = "error") => (src \notin RegisteredNames \/ dest \notin RegisteredNames)

C1_Witness ==
  /\ pc = "error" /\ src = "Horizon" /\ dest = "horizon" /\ err = "Not found horizon"

\* vertices reachable from the set S by exactly k directed edges of g
RECURSIVE ReachIn(_, _, _)
ReachIn(S, k, g) ==
  IF k = 0 THEN S
  ELSE LET prev == ReachIn(S, k - 1, g)
           pairs == EdgePairs(g)
       IN {e[2] : e \in {f \in pairs : f[1] \in prev}}

\* the least number of edges of a directed path from a to b (graph_size if none)
MinHops(a, b, g) ==
  LET ks == {k \in 0 .. (graph_size - 1) : b \in ReachIn({a}, k, g)}
  IN IF ks = {} THEN graph_size ELSE CHOOSE k \in ks : \A j \in ks : k <= j

\* C2: the reconstructed path has the minimum number of edges over all directed
\* paths from source to destination; Horizon to Ecliptic is Horizon,
\* Equatorial_HA_Dec, Equatorial_RA_Dec, Ecliptic.
C2_ShortestPath ==
  (pc \in {"mult", "done", "ub"}) =>
    /\ Len(store_path) - 1 = MinHops(src_vertex, dest_vertex, G)
    /\ (src = "Horizon" /\ dest = "Ecliptic") => Path = <<0, 1, 2, 3>>

C2_Witness ==
  /\ pc = "done" /\ src = "Horizon" /\ dest = "Ecliptic" /\ store_path = <<3, 2, 1, 0>>

\* the vector v carried along path[i .. ] through the matrices registered in g
RECURSIVE Fold(_, _, _, _)
Fold(path, i, v, g) ==
  IF i >= Len(path) THEN v
  ELSE LET M == Registered(path[i], path[i + 1], g)
       IN Fold(path, i + 1,
               << M[1][1] * v[1] + M[1][2] * v[2], M[2][1] * v[1] + M[2][2] * v[2] >>, g)

\* the consecutive pairs of path, in order
Pairs(path) == [i \in 1 .. (Len(path) - 1) |-> <<path[i], path[i + 1]>>]

\* C3: the result is the input left-multiplied by the matrices registered on
\* the directed edges of the path in source-to-destination order, each edge
\* applied exactly once.
C3_Composition ==
  (pc = "done") =>
    /\ result = Fold(Path, 1, col_vec, G)
    /\ applied = Pairs(Path)

C3_Witness ==
  /\ pc = "done" /\ src = "Galactic" /\ dest = "Horizon" /\ col_vec = <<1, 0>>
  /\ applied = << <<4, 2>>, <<2, 1>>, <<1, 0>> >>

\* C4: with source = destination the path is the single vertex, no matrix is
\* applied and the input is returned unchanged.
C4_SameFrame ==
  (src = dest /\ pc \in {"mult", "done", "ub"}) =>
    /\ store_path = <<src_vertex>>
    /\ applied = <<>>
    /\ pc # "ub"
    /\ ans = col_vec
    /\ (pc = "done" => result = col_vec)

C4_Witness ==
  /\ pc = "done" /\ src = "Ecliptic" /\ dest = "Ecliptic" /\ col_vec = <<1, 1>>
  /\ result = <<1, 1>>

\* C5: the graph of every call has the 5 distinctly named vertices and exactly
\* the 8 directed edges of the 4 relationships, whatever the arguments.
C5_Catalog ==
  (pc # "idle") =>
    /\ G.names = <<"Horizon", "Equatorial_HA_Dec", "Equatorial_RA_Dec", "Ecliptic", "Galactic">>
    /\ num_vertices(G) = graph_size
    /\ \A i, j \in 1 .. Len(G.names) : G.names[i] = G.names[j] => i = j
    /\ Len(G.edges) = 8
    /\ EdgePairs(G) = { <<0, 1>>, <<1, 0>>, <<1, 2>>, <<2, 1>>,
                        <<2, 3>>, <<3, 2>>, <<2, 4>>, <<4, 2>> }
    /\ \A a \in {3, 4}, b \in {3, 4} : <<a, b>> \notin EdgePairs(G)
    /\ \A b \in {2, 3, 4} : <<0, b>> \notin EdgePairs(G) /\ <<b, 0>> \notin EdgePairs(G)

C5_Witness ==
  /\ pc = "done" /\ src = "Galactic" /\ dest = "Ecliptic" /\ col_vec = <<0, 1>>
  /\ Cardinality(EdgePairs(G)) = 8

C7_RoundTrip ==
  LET A == dest_vertex
      B == src_vertex
  IN (/\ pc = "done" /\ trip = 1
      /\ <<A, B>> \in EdgePairs(G) /\ <<B, A>> \in EdgePairs(G)
      /\ MatMul(Registered(B, A, G), Registered(A, B, G)) = Identity)
     => (/\ result = first.input
         /\ first.applied = << <<A, B>> >>
         /\ applied = << <<B, A>> >>)

C7_Witness ==
  /\ pc = "done" /\ trip = 1
  /\ src = "Equatorial_HA_Dec" /\ dest = "Horizon" /\ phi = 0
  /\ first.input = <<1, 0>> /\ col_vec = <<0, 1>> /\ result = <<1, 0>>

\* C8: a failed call has applied no matrix and produced no value; a returned
\* value is the input folded through every edge of the complete path from
\* the source to the destination.
C8_NoPartialResult ==
  /\ (pc = "error") => (applied = <<>> /\ ans = <<0, 0>> /\ result = <<0, 0>>)
  /\ pc # "ub"
  /\ (pc # "done") => result = <<0, 0>>
  /\ (pc = "done") =>
       /\ Path[1] = src_vertex /\ Path[Len(Path)] = dest_vertex
       /\ Len(applied) = Len(Path) - 1
       /\ \A i \in 1 .. Len(applied) : applied[i] = <<Path[i], Path[i + 1]>>
       /\ result = ans
       /\ ans = Fold(Path, 1, col_vec, G)

C8_Witness ==
  /\ pc = "done" /\ src = "Ecliptic" /\ dest = "Galactic" /\ col_vec = <<1, 1>>
  /\ Len(applied) = 2 /\ result # <<0, 0>>

\* a call is executing
Running == pc \notin {"idle", "done", "error", "ub"}

BothRegistered == src \in RegisteredNames /\ dest \in RegisteredNames

\* C9: every call terminates: an executing call always has a next step and
\* takes at most 17 steps.  For registered names the search reaches the
\* destination, the walk takes at most 3 iterations, reads only entries that
\* were assigned, and the call returns; for other names it ends in an error.
C9_Terminates ==
  /\ Running => ENABLED Step
  /\ steps <= 17
  /\ (pc = "walk") =>
       /\ Len(store_path) <= 3
       /\ (p # src_vertex => (Len(store_path) < 3 /\ p \in written))
  /\ (pc \in {"walk", "mult", "done"}) => color[dest_vertex] # "white"
  /\ pc # "ub"
  /\ (pc = "done") => BothRegistered
  /\ (pc = "error") => ~BothRegistered
  /\ (pc \in {"bfs_init", "bfs", "walk", "mult"}) => BothRegistered

C9_Witness ==
  /\ pc = "done" /\ src = "Ecliptic" /\ dest = "Horizon" /\ Len(store_path) = 4
  /\ written = {0, 1, 2, 3, 4} /\ steps = 17

\* C10: the path, read from source to destination, starts at the source,
\* ends at the destination, repeats no vertex, and every consecutive pair is
\* a directed edge of the graph, so the lookup of line 148 never misses.
C10_PathValid ==
  (pc \in {"mult", "done", "ub"}) =>
    /\ Path[1] = src_vertex
    /\ Path[Len(Path)] = dest_vertex
    /\ \A i, j \in 1 .. Len(Path) : Path[i] = Path[j] => i = j
    /\ \A i \in 1 .. (Len(Path) - 1) : <<Path[i], Path[i + 1]>> \in EdgePairs(G)
    /\ pc # "ub"

C10_Witness ==
  /\ pc = "mult" /\ src = "Ecliptic" /\ dest = "Galactic" /\ Path = <<3, 2, 4>>
  /\ it = 2 /\ applied = << <<3, 2>> >>

\* the directed paths of exactly k edges that start at a, as vertex sequences
RECURSIVE PathsFrom(_, _, _)
PathsFrom(a, k, pairs) ==
  IF k = 0 THEN {<<a>>}
  ELSE LET shorter == PathsFrom(a, k - 1, pairs)
       IN UNION {{Append(q, e[2]) : e \in {f \in pairs : f[1] = q[Len(q)]}} : q \in shorter}

\* the minimum-hop paths from a to b in g
MinPaths(a, b, g) ==
  {q \in PathsFrom(a, MinHops(a, b, g), EdgePairs(g)) : q[Len(q)] = b}

\* the vertex sequence that starts at s and follows the applied edges app
PathOf(s, app) == <<s>> \o [i \in 1 .. Len(app) |-> app[i][2]]

\* C11: path selection is deterministic.  The path is the only minimum-hop
\* path of the catalog from the source to the destination, and a repeated
\* call with the same names and any other angle parameters and column
\* vector discovers the same vertex sequence as the earlier call.
C11_Deterministic ==
  /\ (pc \in {"mult", "done", "ub"}) => MinPaths(src_vertex, dest_vertex, G) = {Path}
  /\ (pc \in {"mult", "done", "ub"} /\ trip = 2) => Path = PathOf(src_vertex, first.applied)
  /\ (pc = "done" /\ trip = 2) => applied = first.applied

C11_Witness ==
  /\ pc = "done" /\ trip = 2 /\ src = "Horizon" /\ dest = "Galactic"
  /\ phi = 1 /\ st = 0 /\ obliquity = 1 /\ col_vec = <<1, 1>>
  /\ Path = <<0, 1, 2, 4>> /\ first.applied = << <<0, 1>>, <<1, 2>>, <<2, 4>> >>

====
